---------------------------- MODULE Spec2Model ----------------------------
(***************************************************************************)
(* The lexical scanners of src/lib.rs (wirefilter), written with the nom   *)
(* parser-combinator macros over &str.  Every scanner is a pure function   *)
(* from the input text to nom's three-way IResult:                         *)
(*     Done(rest, out) | Error(kind at subslice) | Incomplete(Needed).     *)
(* Text is a sequence of one-character strings.  Each combinator the       *)
(* source uses (tag!, alt!, map_res!, take!, char!, one_of!, opt!,         *)
(* is_not!, fold_many0!, do_parse!, switch!, digit, hex_digit, oct_digit,  *)
(* alpha, anychar) is an operator computing what the macro computes on     *)
(* &str input, Incomplete results included.                                *)
(***************************************************************************)
EXTENDS Integers, Sequences, FiniteSets

VARIABLES input, pc, scanner, result

vars == <<input, pc, scanner, result>>

-----------------------------------------------------------------------------
(* Bounds of the model.                                                    *)

\* Width given to u64: TLC's integers are 32 bits wide, so the 64-bit type is
\* kept at a reduced width; a literal overflows it the way it overflows u64.
U64Bits == 10

\* Longest input text given to parse_unsigned.
MaxUnsignedLen == 5

\* Longest input text given to parse_operator.
MaxOperatorLen == 3

\* Longest input text of the mixed family given to every scanner.
MaxMixedLen == 4

\* Most leading zeros put in front of an IPv4 decimal literal.
MaxLeadingZeros == 2

\* Most escape sequences in a quoted-string body.
MaxEscapes == 2

-----------------------------------------------------------------------------
(* Program constants.                                                      *)

\* Width of u8 (hex_byte, dec_byte, oct_byte).
U8Bits == 8

RECURSIVE Pow2(_)
Pow2(n) ==
    IF n = 0 THEN 1 ELSE 2 * Pow2(n - 1)

U8Max == Pow2(U8Bits) - 1

U64Max == Pow2(U64Bits) - 1

-----------------------------------------------------------------------------
(* Text helpers.                                                           *)

Drop(s, n) ==
    SubSeq(s, n + 1, Len(s))

Take(s, n) ==
    SubSeq(s, 1, n)

Min(S) ==
    CHOOSE x \in S : \A y \in S : x <= y

RECURSIVE Strings(_, _)
Strings(alphabet, n) ==
    IF n = 0 THEN {<<>>}
    ELSE LET shorter == Strings(alphabet, n - 1)
         IN  shorter \cup {Append(s, c) : s \in shorter, c \in alphabet}

\* char::is_digit(10), char::is_digit(8), char::is_digit(16), char::is_alphabetic
\* on the ASCII range.
DecDigits == {"0", "1", "2", "3", "4", "5", "6", "7", "8", "9"}

OctDigits == {"0", "1", "2", "3", "4", "5", "6", "7"}

HexDigits ==
    DecDigits \cup {"a", "b", "c", "d", "e", "f", "A", "B", "C", "D", "E", "F"}

Alphabetic ==
    {"a", "b", "c", "d", "e", "f", "g", "h", "i", "j", "k", "l", "m",
     "n", "o", "p", "q", "r", "s", "t", "u", "v", "w", "x", "y", "z",
     "A", "B", "C", "D", "E", "F", "G", "H", "I", "J", "K", "L", "M",
     "N", "O", "P", "Q", "R", "S", "T", "U", "V", "W", "X", "Y", "Z"}

-----------------------------------------------------------------------------
(* nom's IResult.                                                          *)

Done(rest, out) ==
    [kind |-> "Done", rest |-> rest, out |-> out]

\* A verbose error: the chain of (ErrorKind, subslice) nodes, outermost first.
Error(code, at) ==
    [kind |-> "Error", err |-> <<[code |-> code, at |-> at]>>]

ErrorNode(code, at, inner) ==
    [kind |-> "Error", err |-> <<[code |-> code, at |-> at]>> \o inner.err]

\* Needed::Unknown is <<>>, Needed::Size(n) is <<n>>.
Unknown == <<>>

Size(n) == <<n>>

Incomplete(needed) ==
    [kind |-> "Incomplete", needed |-> needed]

\* do_parse!/tuple!/preceded!: a Needed::Size of a later step is counted from
\* the start of the sequence.
AddConsumed(r, consumed) ==
    IF r.kind = "Incomplete" /\ r.needed # Unknown
    THEN Incomplete(Size(consumed + r.needed[1]))
    ELSE r

-----------------------------------------------------------------------------
(* Leaf parsers.                                                           *)

\* tag!(t): Compare on &str zips the two texts; a mismatch in the common part
\* is an error, a match with the input shorter than the tag is Incomplete.
tag(i, t) ==
    LET n == IF Len(i) < Len(t) THEN Len(i) ELSE Len(t)
    IN  IF \E k \in 1..n : i[k] # t[k] THEN Error("Tag", i)
        ELSE IF Len(i) >= Len(t) THEN Done(Drop(i, Len(t)), t)
        ELSE Incomplete(Size(Len(t)))

\* digit / hex_digit / oct_digit / alpha, one per character class:
\* Incomplete(Unknown) on empty input, an error when the first character is not of the class, else the maximal run
\* (a run that reaches the end of the input is Done).
char_run(i, class, code) ==
    LET other == {k \in 1..Len(i) : i[k] \notin class}
        n     == IF other = {} THEN Len(i) ELSE Min(other) - 1
    IN  IF Len(i) = 0 THEN Incomplete(Unknown)
        ELSE IF n = 0 THEN Error(code, i)
        ELSE Done(Drop(i, n), Take(i, n))

digit(i) ==
    char_run(i, DecDigits, "Digit")

alpha(i) ==
    char_run(i, Alphabetic, "Alpha")

\* take!(n): the first n characters, Incomplete(Size(n)) when there are fewer.
take(i, n) ==
    IF Len(i) < n THEN Incomplete(Size(n)) ELSE Done(Drop(i, n), Take(i, n))

\* char!(c)
char(i, c) ==
    IF Len(i) = 0 THEN Incomplete(Size(1))
    ELSE IF i[1] # c THEN Error("Char", i)
    ELSE Done(Tail(i), c)

\* one_of!(set)
one_of(i, set) ==
    IF Len(i) = 0 THEN Incomplete(Size(1))
    ELSE IF i[1] \notin set THEN Error("OneOf", i)
    ELSE Done(Tail(i), i[1])

\* anychar
anychar(i) ==
    IF Len(i) = 0 THEN Incomplete(Size(1)) ELSE Done(Tail(i), i[1])

\* is_not!(set): the run up to the first character of the set; an error when
\* that character is the first one; the whole input when there is none.
is_not(i, set) ==
    LET hit == {k \in 1..Len(i) : i[k] \in set}
    IN  IF hit = {} THEN Done(<<>>, i)
        ELSE IF Min(hit) = 1 THEN Error("IsNot", i)
        ELSE Done(Drop(i, Min(hit) - 1), Take(i, Min(hit) - 1))

\* opt!(p): an error of p is Done with None (the empty sequence), Incomplete stays.
opt(i, r) ==
    IF r.kind = "Error" THEN Done(i, <<>>)
    ELSE IF r.kind = "Done" THEN Done(r.rest, <<r.out>>)
    ELSE r

-----------------------------------------------------------------------------
(* Integer conversion of the standard library.                             *)

\* char::to_digit(radix); -1 is None.
to_digit(c, radix) ==
    LET v == CASE c = "0" -> 0 [] c = "1" -> 1 [] c = "2" -> 2 [] c = "3" -> 3
               [] c = "4" -> 4 [] c = "5" -> 5 [] c = "6" -> 6 [] c = "7" -> 7
               [] c = "8" -> 8 [] c = "9" -> 9
               [] c \in {"a", "A"} -> 10 [] c \in {"b", "B"} -> 11
               [] c \in {"c", "C"} -> 12 [] c \in {"d", "D"} -> 13
               [] c \in {"e", "E"} -> 14 [] c \in {"f", "F"} -> 15
               [] OTHER -> 36
    IN  IF v < radix THEN v ELSE -1

Ok(v) ==
    [ok |-> TRUE, val |-> v]

Err(why) ==
    [ok |-> FALSE, why |-> why]

\* The digit loop of from_str_radix: checked_mul then checked_add per digit.
RECURSIVE accumulate(_, _, _, _)
accumulate(digits, radix, max, acc) ==
    IF digits = <<>> THEN Ok(acc)
    ELSE LET x == to_digit(Head(digits), radix)
         IN  IF x < 0 THEN Err("InvalidDigit")
             ELSE IF acc * radix > max THEN Err("Overflow")
             ELSE IF acc * radix + x > max THEN Err("Overflow")
             ELSE accumulate(Tail(digits), radix, max, acc * radix + x)

\* from_str_radix with wrapping in place of checked arithmetic: a value past
\* max wraps around instead of being an error.
RECURSIVE accumulate_wrapping(_, _, _, _)
accumulate_wrapping(digits, radix, max, acc) ==
    IF digits = <<>> THEN Ok(acc)
    ELSE IF to_digit(Head(digits), radix) < 0 THEN Err("InvalidDigit")
    ELSE accumulate_wrapping(Tail(digits), radix, max,
                             (acc * radix + to_digit(Head(digits), radix)) % (max + 1))

from_str_radix_wrapping(src, radix, max) ==
    IF src = <<>> THEN Err("Empty")
    ELSE IF Head(src) = "+" /\ Tail(src) = <<>> THEN Err("Empty")
    ELSE accumulate_wrapping(IF Head(src) = "+" THEN Tail(src) ELSE src,
                             radix, max, 0)

\* {u8,u64}::from_str_radix for an unsigned type of maximum max: an optional
\* leading "+" is skipped, an empty digit text is an error.
from_str_radix(src, radix, max) ==
    IF src = <<>> THEN Err("Empty")
    ELSE LET digits == IF Head(src) = "+" THEN Tail(src) ELSE src
         IN  IF digits = <<>> THEN Err("Empty")
             ELSE accumulate(digits, radix, max, 0)

\* map_res!(p, |digits| from_str_radix(digits, radix)) for an unsigned type
\* of maximum max: r is p's result on i; an Err of the conversion is
\* Error(MapRes) at i, the input of p.
map_res(i, r, radix, max) ==
    IF r.kind # "Done" THEN r
    ELSE IF from_str_radix(r.out, radix, max).ok
    THEN Done(r.rest, from_str_radix(r.out, radix, max).val)
    ELSE Error("MapRes", i)

-----------------------------------------------------------------------------
(* Combinators.                                                            *)

\* alt!: rs are the results of the alternatives on i, in source order.  The
\* first that is not an Error decides (Done or Incomplete alike); when all
\* are errors the result is Error(Alt) at i.
alt(i, rs) ==
    IF \A k \in 1..Len(rs) : rs[k].kind = "Error" THEN Error("Alt", i)
    ELSE rs[Min({k \in 1..Len(rs) : rs[k].kind # "Error"})]

\* value!(v, p): r is p's result.
value(r, v) ==
    IF r.kind = "Done" THEN Done(r.rest, v) ELSE r

\* `b as char`: the character whose code point is the byte b, for the bytes
\* the escapes of the input texts denote.
as_char(b) ==
    CASE b = 9 -> "\t" [] b = 10 -> "\n" [] b = 34 -> "\""
      [] b = 65 -> "A" [] b = 97 -> "a"

\* map!(p, |b| b as char)
map_as_char(r) ==
    IF r.kind = "Done" THEN Done(r.rest, as_char(r.out)) ELSE r

\* map!(opt!(p), Option::unwrap_or_default)
unwrap_or_default(r) ==
    IF r.kind = "Done"
    THEN Done(r.rest, IF r.out = <<>> THEN <<>> ELSE r.out[1])
    ELSE r

Quote == "\""

Backslash == "\\"

Borrowed(text) ==
    [cow |-> "Borrowed", text |-> text]

Owned(text) ==
    [cow |-> "Owned", text |-> text]

\* The closure of the fold_many0! in parse_string: acc.into_owned(),
\* push(ch), push_str(rest).
push_escape(acc, o) ==
    Owned(acc.text \o <<o[1]>> \o o[2])

\* preceded!(p, q): the output of q.
second(r) ==
    IF r.kind = "Done" THEN Done(r.rest, r.out[2]) ELSE r

\* ([b1, b2]) of hex_byte_pair: the outputs of steps 1 and 3.
byte_pair(r) ==
    IF r.kind = "Done" THEN Done(r.rest, <<r.out[1], r.out[3]>>) ELSE r

\* ([w1[0], w1[1], w2[0], w2[1], w3[0], w3[1]]) of parse_ethernet_addr.
six_bytes(r) ==
    IF r.kind = "Done" THEN Done(r.rest, r.out[1] \o r.out[3] \o r.out[5])
    ELSE r

\* ([b1, b2, b3, b4]) of parse_ipv4.
four_bytes(r) ==
    IF r.kind = "Done"
    THEN Done(r.rest, <<r.out[1], r.out[3], r.out[5], r.out[7]>>)
    ELSE r

\* (res) of parse_string: the output of the fold, step 3.
third(r) ==
    IF r.kind = "Done" THEN Done(r.rest, r.out[3]) ELSE r

RECURSIVE do_parse(_, _, _, _)
RECURSIVE next_step(_, _, _, _)
RECURSIVE run_step(_, _, _)
RECURSIVE fold_many0(_, _)
RECURSIVE fold_step(_, _, _)

\* do_parse! (and tuple!, preceded!) on the input i: steps are the parsers
\* still to run on rest, outs the outputs of those already run.  The first
\* step that is not Done ends the sequence with its own result, a
\* Needed::Size counted from the start of i.
do_parse(i, rest, steps, outs) ==
    IF steps = <<>> THEN Done(rest, outs)
    ELSE next_step(i, AddConsumed(run_step(Head(steps), rest, outs),
                                  Len(i) - Len(rest)),
                   Tail(steps), outs)

next_step(i, r, steps, outs) ==
    IF r.kind # "Done" THEN r
    ELSE do_parse(i, r.rest, steps, Append(outs, r.out))

\* The parsers that the do_parse!, tuple! and preceded! sequences of the
\* source name.
run_step(name, i, outs) ==
    CASE name = "hex_byte" ->
           \* map_res!(take!(2), |digits| u8::from_str_radix(digits, 16))
           map_res(i, take(i, 2), 16, U8Max)
      [] name = "ethernet_separator" ->
           one_of(i, {":", ".", "-"})
      [] name = "opt_ethernet_separator" ->
           opt(i, one_of(i, {":", ".", "-"}))
      [] name = "hex_byte_pair" ->
           byte_pair(do_parse(i, i, <<"hex_byte", "opt_ethernet_separator",
                                      "hex_byte">>, <<>>))
      [] name = "dec_byte" ->
           \* map_res!(digit, u8::from_str)
           map_res(i, digit(i), 10, U8Max)
      [] name = "dot" ->
           char(i, ".")
      [] name = "quote" ->
           char(i, Quote)
      [] name = "backslash" ->
           char(i, Backslash)
      [] name = "x" ->
           char(i, "x")
      [] name = "hex_char" ->
           map_as_char(map_res(i, take(i, 2), 16, U8Max))
      [] name = "unprefixed" ->
           \* map!(is_not!("\"\\"), Cow::Borrowed)
           is_not(i, {Quote, Backslash})
      [] name = "literal_run" ->
           unwrap_or_default(opt(i, is_not(i, {Quote, Backslash})))
      [] name = "escaped_char" ->
           \* alt!(preceded!(char!('x'), map!(hex_byte, |b| b as char)) |
           \*      map!(oct_byte, |b| b as char) | anychar)
           alt(i, << second(do_parse(i, i, <<"x", "hex_char">>, <<>>)),
                     map_as_char(map_res(i, take(i, 3), 8, U8Max)),
                     anychar(i) >>)
      [] name = "escape" ->
           \* preceded!(char!('\\'), tuple!(escaped_char, literal_run))
           second(do_parse(i, i, <<"backslash", "escape_tuple">>, <<>>))
      [] name = "escape_tuple" ->
           do_parse(i, i, <<"escaped_char", "literal_run">>, <<>>)
      [] name = "fold_many0" ->
           fold_many0(i, Borrowed(outs[2]))

\* fold_many0!: Done on empty input or on an Error of the element parser,
\* Incomplete passed on, each (ch, rest) folded into the accumulator.
fold_many0(i, acc) ==
    IF Len(i) = 0 THEN Done(i, acc)
    ELSE fold_step(i, acc, run_step("escape", i, <<>>))

fold_step(i, acc, r) ==
    IF r.kind = "Error" THEN Done(i, acc)
    ELSE IF r.kind = "Incomplete" THEN r
    ELSE IF Len(r.rest) = Len(i) THEN Error("Many0", i)
    ELSE fold_many0(r.rest, push_escape(acc, r.out))

-----------------------------------------------------------------------------
(* parse_unsigned                                                          *)

\* preceded!(tag!(t), map_res!(run, |digits| u64::from_str_radix(digits, radix)))
\* with run the digit-run parser of the class.
prefixed_number(i, t, class, code, radix) ==
    IF tag(i, t).kind # "Done" THEN tag(i, t)
    ELSE AddConsumed(map_res(Drop(i, Len(t)),
                             char_run(Drop(i, Len(t)), class, code),
                             radix, U64Max),
                     Len(t))

parse_unsigned(i) ==
    alt(i, << prefixed_number(i, <<"0", "x">>, HexDigits, "HexDigit", 16),
              prefixed_number(i, <<"0">>, OctDigits, "OctDigit", 8),
              map_res(i, digit(i), 10, U64Max) >>)

-----------------------------------------------------------------------------
(* parse_operator                                                          *)

\* The alternatives of parse_operator, in source order.
OperatorTags ==
    << [op |-> "Equal",            t |-> <<"=", "=">>],
       [op |-> "NotEqual",         t |-> <<"!", "=">>],
       [op |-> "GreaterThanEqual", t |-> <<">", "=">>],
       [op |-> "LessThanEqual",    t |-> <<"<", "=">>],
       [op |-> "GreaterThan",      t |-> <<">">>],
       [op |-> "LessThan",         t |-> <<"<">>],
       [op |-> "Matches",          t |-> <<"~">>],
       [op |-> "BitwiseAnd",       t |-> <<"&">>] >>

parse_operator(i) ==
    alt(i, [k \in 1..Len(OperatorTags) |->
               value(tag(i, OperatorTags[k].t), OperatorTags[k].op)])

-----------------------------------------------------------------------------
(* parse_identifier_like                                                   *)

Operator(op) ==
    [tag |-> "Operator", op |-> op]

Identifier(text) ==
    [tag |-> "Identifier", text |-> text]

\* The literal arms of the switch!, in source order.
Keywords ==
    << [word |-> <<"e", "q">>, op |-> "Equal"],
       [word |-> <<"n", "e">>, op |-> "NotEqual"],
       [word |-> <<"g", "t">>, op |-> "GreaterThan"],
       [word |-> <<"l", "t">>, op |-> "LessThan"],
       [word |-> <<"g", "e">>, op |-> "GreaterThanEqual"],
       [word |-> <<"l", "e">>, op |-> "LessThanEqual"],
       [word |-> <<"c", "o", "n", "t", "a", "i", "n", "s">>, op |-> "Contains"],
       [word |-> <<"m", "a", "t", "c", "h", "e", "s">>, op |-> "Matches"],
       [word |-> <<"b", "i", "t", "w", "i", "s", "e", "_", "a", "n", "d">>,
        op |-> "BitwiseAnd"] >>

\* The arm the matched text selects: the first arm whose literal equals it,
\* else the catch-all `other`.
classify(word) ==
    IF \A k \in 1..Len(Keywords) : Keywords[k].word # word THEN Identifier(word)
    ELSE Operator(Keywords[Min({k \in 1..Len(Keywords) : Keywords[k].word = word})].op)

\* switch!(alpha, ...): an error of alpha is wrapped in Error(Switch) at the
\* input, Incomplete is passed on, a match is classified.
switch(i, r) ==
    IF r.kind = "Error" THEN ErrorNode("Switch", i, r)
    ELSE IF r.kind = "Incomplete" THEN r
    ELSE Done(r.rest, classify(r.out))

parse_identifier_like(i) ==
    switch(i, alpha(i))

-----------------------------------------------------------------------------
(* parse_ethernet_addr, parse_ipv4, parse_string                           *)

parse_ethernet_addr(i) ==
    six_bytes(do_parse(i, i, <<"hex_byte_pair", "ethernet_separator",
                               "hex_byte_pair", "ethernet_separator",
                               "hex_byte_pair">>, <<>>))

parse_ipv4(i) ==
    four_bytes(do_parse(i, i, <<"dec_byte", "dot", "dec_byte", "dot",
                                "dec_byte", "dot", "dec_byte">>, <<>>))

parse_string(i) ==
    third(do_parse(i, i, <<"quote", "unprefixed", "fold_many0", "quote">>, <<>>))

-----------------------------------------------------------------------------
(* The state machine: a caller hands one text to one scanner.              *)

NoResult == [kind |-> "None"]

InitWith(inputs) ==
    /\ input \in inputs
    /\ pc = "ready"
    /\ scanner = "none"
    /\ result = NoResult

Call(name, r) ==
    /\ pc = "ready"
    /\ pc' = "done"
    /\ scanner' = name
    /\ result' = r
    /\ UNCHANGED input

CallParseUnsigned ==
    Call("parse_unsigned", parse_unsigned(input))

CallParseOperator ==
    Call("parse_operator", parse_operator(input))

CallParseIdentifierLike ==
    Call("parse_identifier_like", parse_identifier_like(input))

CallParseEthernetAddr ==
    Call("parse_ethernet_addr", parse_ethernet_addr(input))

CallParseIpv4 ==
    Call("parse_ipv4", parse_ipv4(input))

CallParseString ==
    Call("parse_string", parse_string(input))

-----------------------------------------------------------------------------
(* Input texts.                                                            *)

Prefixes(s) ==
    {Take(s, n) : n \in 0..Len(s)}

\* Numeric literals: hex, octal and decimal digits, the hex marker, a
\* non-digit.
UnsignedAlphabet == {"0", "x", "7", "9", "f", "g"}

UnsignedInputs == Strings(UnsignedAlphabet, MaxUnsignedLen)

\* Operators: every character of the eight tags and two others.
OperatorAlphabet == {"=", "!", ">", "<", "~", "&", "x", "2"}

OperatorInputs == Strings(OperatorAlphabet, MaxOperatorLen)

\* Identifiers: every prefix of every keyword, every keyword with one more
\* letter, a plain word, each followed by nothing, a digit, a blank or "_and".
KeywordWords == {Keywords[k].word : k \in 1..Len(Keywords)}

IdentifierRuns ==
    UNION {Prefixes(w) : w \in KeywordWords}
        \cup {w \o <<c>> : w \in KeywordWords, c \in {"t", "s"}}
        \cup {<<"x", "y", "z">>, <<"E", "q">>}

IdentifierTails ==
    {<<>>, <<"1">>, <<" ", "t">>, <<"_", "a", "n", "d">>, <<"2", "3">>}

IdentifierInputs ==
    {r \o t : r \in IdentifierRuns, t \in IdentifierTails}

\* Ethernet addresses: the six bytes of the tests, any separator or none in
\* each of the five gaps, at most one byte replaced by another two-character
\* text, an optional trailing character.
EthernetBytes ==
    << <<"1", "2">>, <<"3", "4">>, <<"5", "6">>,
       <<"7", "8">>, <<"9", "0">>, <<"a", "b">> >>

EthernetGaps == {<<":">>, <<".">>, <<"-">>, <<>>}

EthernetOddBytes == {<<"7", "g">>, <<"+", "f">>, <<"A", "B">>}

EthernetText(bytes, gaps, tail) ==
    bytes[1] \o gaps[1] \o bytes[2] \o gaps[2] \o bytes[3] \o gaps[3]
        \o bytes[4] \o gaps[4] \o bytes[5] \o gaps[5] \o bytes[6] \o tail

EthernetByteChoices ==
    {EthernetBytes}
        \cup {[EthernetBytes EXCEPT ![k] = b] : k \in 1..6, b \in EthernetOddBytes}

EthernetInputs ==
    {EthernetText(bytes, gaps, tail) :
        bytes \in EthernetByteChoices,
        gaps \in [1..5 -> EthernetGaps],
        tail \in {<<>>, <<"c">>}}

\* IPv4 addresses: four literals, each 7, 255 or 256 behind up to
\* MaxLeadingZeros zeros, "." in the three gaps with at most one of them
\* replaced by ":", an optional trailing character.
RECURSIVE Zeros(_)
Zeros(n) ==
    IF n = 0 THEN <<>> ELSE <<"0">> \o Zeros(n - 1)

Ipv4Cores == {<<"7">>, <<"2", "5", "5">>, <<"2", "5", "6">>}

Ipv4Literals ==
    {Zeros(z) \o c : z \in 0..MaxLeadingZeros, c \in Ipv4Cores}

Ipv4Text(lits, odd, tail) ==
    lits[1] \o (IF odd = 1 THEN <<":">> ELSE <<".">>)
        \o lits[2] \o (IF odd = 2 THEN <<":">> ELSE <<".">>)
        \o lits[3] \o (IF odd = 3 THEN <<":">> ELSE <<".">>)
        \o lits[4] \o tail

Ipv4Inputs ==
    {Ipv4Text(lits, odd, tail) :
        lits \in [1..4 -> Ipv4Literals], odd \in 0..3, tail \in {<<>>, <<";">>}}

\* Quoted strings: an opening quote, a first run, up to MaxEscapes escapes
\* each followed by a run, then a closing quote or none, then a trailing text.
StringRuns == {<<>>, <<"e">>, <<"e", "d">>}

StringEscapes ==
    { <<Backslash, "x", "0", "a">>, <<Backslash, "0", "4", "2">>,
      <<Backslash, "p">>, <<Backslash, "+", "1", "2">>,
      <<Backslash, "x", "+", "9">>, <<Backslash, "7", "7", "7">>,
      <<Backslash, Quote>>, <<Backslash, Backslash>> }

RECURSIVE StringBodies(_)
StringBodies(k) ==
    IF k = 0 THEN StringRuns
    ELSE LET shorter == StringBodies(k - 1)
         IN  shorter \cup {b \o e \o r :
                              b \in shorter, e \in StringEscapes, r \in StringRuns}

StringTails == {<<>>, <<";">>, <<";", ";", ";">>}

StringInputs ==
    {<<Quote>> \o b \o close \o t :
        b \in StringBodies(MaxEscapes), close \in {<<>>, <<Quote>>}, t \in StringTails}

\* Short texts over the characters of every token kind, given to every scanner.
MixedAlphabet == {"0", "1", "2", "3", "x", ">", "=", ":", ".", Quote}

MixedInputs == Strings(MixedAlphabet, MaxMixedLen)

-----------------------------------------------------------------------------
(* Specifications: one per scanner on its own input texts, and Spec, every *)
(* scanner on the mixed texts.                                             *)

Init == InitWith(MixedInputs)

Next ==
    \/ CallParseUnsigned
    \/ CallParseOperator
    \/ CallParseIdentifierLike
    \/ CallParseEthernetAddr
    \/ CallParseIpv4
    \/ CallParseString

Spec == Init /\ [][Next]_vars

SpecUnsigned == InitWith(UnsignedInputs) /\ [][CallParseUnsigned]_vars

SpecOperator == InitWith(OperatorInputs) /\ [][CallParseOperator]_vars

SpecIdentifier == InitWith(IdentifierInputs) /\ [][CallParseIdentifierLike]_vars

SpecEthernet == InitWith(EthernetInputs) /\ [][CallParseEthernetAddr]_vars

SpecIpv4 == InitWith(Ipv4Inputs) /\ [][CallParseIpv4]_vars

SpecString == InitWith(StringInputs) /\ [][CallParseString]_vars

-----------------------------------------------------------------------------
(* What the claims say, read off the input text alone.                     *)

Called(name) ==
    pc = "done" /\ scanner = name

StartsWith(s, t) ==
    Len(s) >= Len(t) /\ Take(s, Len(t)) = t

\* Length of the longest prefix of s made of characters of class.
RunLen(s, class) ==
    IF \A k \in 1..Len(s) : s[k] \in class THEN Len(s)
    ELSE Min({k \in 1..Len(s) : s[k] \notin class}) - 1

\* The number a digit text denotes in the radix, as a mathematical integer.
RECURSIVE Denotes(_, _)
Denotes(digits, radix) ==
    IF digits = <<>> THEN 0
    ELSE Denotes(Take(digits, Len(digits) - 1), radix) * radix
             + to_digit(digits[Len(digits)], radix)

\* The literal a numeric text starts with, by the order hex, octal, decimal:
\* its radix, the length of its prefix and its maximal digit run.
NumericLiteral(s) ==
    IF StartsWith(s, <<"0", "x">>) /\ RunLen(Drop(s, 2), HexDigits) >= 1
    THEN [radix |-> 16, skip |-> 2, digits |-> Take(Drop(s, 2), RunLen(Drop(s, 2), HexDigits))]
    ELSE IF StartsWith(s, <<"0">>) /\ RunLen(Drop(s, 1), OctDigits) >= 1
    THEN [radix |-> 8, skip |-> 1, digits |-> Take(Drop(s, 1), RunLen(Drop(s, 1), OctDigits))]
    ELSE [radix |-> 10, skip |-> 0, digits |-> Take(s, RunLen(s, DecDigits))]

LiteralValue(s) ==
    Denotes(NumericLiteral(s).digits, NumericLiteral(s).radix)

LiteralRest(s) ==
    Drop(s, NumericLiteral(s).skip + Len(NumericLiteral(s).digits))

\* C1: for every input that starts with a numeric literal whose value fits
\* the unsigned type, parse_unsigned returns the value of the literal chosen
\* in the order hex, octal, decimal (a bare 0 is decimal 0) and the remainder
\* after the consumed prefix and run.
C1_Claim ==
    (Called("parse_unsigned") /\ NumericLiteral(input).digits # <<>>
        /\ LiteralValue(input) <= U64Max)
    => result = Done(LiteralRest(input), LiteralValue(input))

\* C9: whenever the maximal digit run of the literal denotes a value above
\* the largest unsigned value, parse_unsigned returns a structural failure,
\* never a success with some other value.
C9_Claim ==
    (Called("parse_unsigned") /\ NumericLiteral(input).digits # <<>>
        /\ LiteralValue(input) > U64Max)
    => result.kind = "Error"

\* The tags of the operator scanner that are a prefix of s, by their rank in
\* the order ==, !=, >=, <=, >, <, ~, &.
TagsAt(s) ==
    {k \in 1..Len(OperatorTags) : StartsWith(s, OperatorTags[k].t)}

\* C2: parse_operator returns the operator of the first tag, in the order
\* ==, !=, >=, <=, >, <, ~, &, that is a prefix of the input, and the input
\* after that tag; an input that starts with none of the tags is a failure
\* whose subslice is the whole input.
C2_Claim ==
    Called("parse_operator")
    => IF TagsAt(input) # {}
       THEN result = Done(Drop(input, Len(OperatorTags[Min(TagsAt(input))].t)),
                          OperatorTags[Min(TagsAt(input))].op)
       ELSE result.kind = "Error" /\ result.err[1].at = input

\* The operator a word names, by the keyword table of the claim.
KeywordOf(word) ==
    {Keywords[k].op : k \in {j \in 1..Len(Keywords) : Keywords[j].word = word}}

\* C3: on an input that starts with an alphabetic character,
\* parse_identifier_like consumes the maximal alphabetic run and returns
\* Operator(op) iff the run is exactly a keyword, else Identifier(run), with
\* the input after the run; and each of the nine keywords, given as the
\* token, yields its operator.
C3_Claim ==
    Called("parse_identifier_like")
    => /\ RunLen(input, Alphabetic) >= 1
          => /\ result.kind = "Done"
             /\ result.rest = Drop(input, RunLen(input, Alphabetic))
             /\ \A op \in KeywordOf(Take(input, RunLen(input, Alphabetic))) :
                    result.out = Operator(op)
             /\ KeywordOf(Take(input, RunLen(input, Alphabetic))) = {}
                    => result.out = Identifier(Take(input, RunLen(input, Alphabetic)))
       /\ \A k \in 1..Len(Keywords) :
              input = Keywords[k].word
              => result.kind = "Done" /\ result.out = Operator(Keywords[k].op)

\* An Ethernet address as the claim spells it: HexByte [S] HexByte, S, the
\* same twice more; "B" is a HexByte (two hex digits), "S" a separator, "O"
\* an optional separator.
MacItems == <<"B", "O", "B", "S", "B", "O", "B", "S", "B", "O", "B">>

Separators == {":", ".", "-"}

\* Reads the items from position pos of s: where it ends and the bytes, or
\* the position where a hex byte or a separator was expected and not found.
RECURSIVE MacMatch(_, _, _, _)
MacMatch(s, pos, items, bytes) ==
    IF items = <<>> THEN [ok |-> TRUE, pos |-> pos, bytes |-> bytes]
    ELSE IF Head(items) = "B"
    THEN IF pos + 1 <= Len(s) /\ s[pos] \in HexDigits /\ s[pos + 1] \in HexDigits
         THEN MacMatch(s, pos + 2, Tail(items),
                       Append(bytes, Denotes(<<s[pos], s[pos + 1]>>, 16)))
         ELSE [ok |-> FALSE, pos |-> pos, bytes |-> <<>>]
    ELSE IF pos <= Len(s) /\ s[pos] \in Separators
    THEN MacMatch(s, pos + 1, Tail(items), bytes)
    ELSE IF Head(items) = "O"
    THEN MacMatch(s, pos, Tail(items), bytes)
    ELSE [ok |-> FALSE, pos |-> pos, bytes |-> <<>>]

\* C4: parse_ethernet_addr succeeds iff the input has a prefix P S P S P with
\* P two HexBytes around an optional separator, a HexByte exactly two hex
\* digits, S any of ":", ".", "-"; it then returns the six bytes and the
\* remainder; otherwise it fails at the subslice where a hex byte or a
\* separator was expected and not found.
C4_Claim ==
    Called("parse_ethernet_addr")
    => LET m == MacMatch(input, 1, MacItems, <<>>)
       IN  IF m.ok THEN result = Done(Drop(input, m.pos - 1), m.bytes)
           ELSE result.kind = "Error" /\ result.err[1].at = Drop(input, m.pos - 1)

\* Reads literal k of 4 from position pos of s: a maximal run of 1 to
\* maxDigits decimal digits of value 0..255, then "." before the next one.
RECURSIVE Ipv4Match(_, _, _, _, _)
Ipv4Match(s, pos, k, bytes, maxDigits) ==
    LET n   == RunLen(Drop(s, pos - 1), DecDigits)
        v   == Denotes(SubSeq(s, pos, pos + n - 1), 10)
        no(why, at) == [ok |-> FALSE, why |-> why, pos |-> at, bytes |-> <<>>]
    IN  IF n = 0 THEN no("digit", pos)
        ELSE IF v > 255 THEN no("overflow", pos)
        ELSE IF n > maxDigits THEN no("long", pos)
        ELSE IF k = 4
        THEN [ok |-> TRUE, why |-> "", pos |-> pos + n, bytes |-> Append(bytes, v)]
        ELSE IF pos + n <= Len(s) /\ s[pos + n] = "."
        THEN Ipv4Match(s, pos + n + 1, k + 1, Append(bytes, v), maxDigits)
        ELSE no("dot", pos + n)

Ipv4Holds(m) ==
    /\ result.kind = "Done"
       => m.ok /\ result = Done(Drop(input, m.pos - 1), m.bytes)
    /\ m.why = "overflow"
       => result.kind = "Error" /\ result.err[1].at = Drop(input, m.pos - 1)

\* C5 as claimed: parse_ipv4 succeeds only on four "."-separated literals,
\* each a run of 1 to 3 decimal digits of value 0..255, returning the four
\* values and the remainder; a literal whose maximal run is above 255 fails
\* at that literal.
C5_Claim ==
    Called("parse_ipv4") => Ipv4Holds(Ipv4Match(input, 1, 1, <<>>, 3))

\* C5 as amended: parse_ipv4 succeeds only on four "."-separated literals,
\* each a run of one or more decimal digits of any length (leading zeros
\* count) of value 0..255, returning the four values in order and the
\* remainder after the fourth; a literal whose maximal run is above 255
\* fails at that literal, never truncated, wrapped or shortened.
C5_Amended ==
    Called("parse_ipv4") => Ipv4Holds(Ipv4Match(input, 1, 1, <<>>, Len(input)))

\* C5 witness: a success on a text whose first literal has more than three
\* digits and the value 255.
C5_Witness ==
    /\ Called("parse_ipv4")
    /\ result.kind = "Done"
    /\ RunLen(input, DecDigits) > 3
    /\ result.out[1] = 255

Specials == {Quote, Backslash}

\* Length of the longest prefix of s free of quotes and backslashes.
PlainLen(s) ==
    IF \A k \in 1..Len(s) : s[k] \notin Specials THEN Len(s)
    ELSE Min({k \in 1..Len(s) : s[k] \in Specials}) - 1

\* C6: for a text t free of quotes and backslashes, of any length, and any
\* text r, parse_string on quote t quote r succeeds with the borrowed value
\* t and the remainder r.
C6_Claim ==
    (Called("parse_string") /\ StartsWith(input, <<Quote>>)
        /\ PlainLen(Tail(input)) < Len(Tail(input))
        /\ Tail(input)[PlainLen(Tail(input)) + 1] = Quote)
    => result = Done(Drop(Tail(input), PlainLen(Tail(input)) + 1),
                     Borrowed(Take(Tail(input), PlainLen(Tail(input)))))

\* Reads a quoted body from position pos of s by the escape rules of the
\* claim: backslash x and two hex digits is that byte, else backslash and
\* three octal digits denoting a byte is that byte, else the character after
\* the backslash stands for itself.  closed tells whether the closing quote
\* was found before the text ended.
RECURSIVE StringRead(_, _, _, _)
StringRead(s, pos, text, escapes) ==
    LET open == [closed |-> FALSE, text |-> text, rest |-> <<>>, escapes |-> escapes]
        hex  == /\ pos + 3 <= Len(s)
                /\ s[pos + 1] = "x"
                /\ s[pos + 2] \in HexDigits
                /\ s[pos + 3] \in HexDigits
        oct  == /\ pos + 3 <= Len(s)
                /\ \A k \in 1..3 : s[pos + k] \in OctDigits
                /\ Denotes(SubSeq(s, pos + 1, pos + 3), 8) <= 255
    IN  IF pos > Len(s) THEN open
        ELSE IF s[pos] = Quote
        THEN [closed |-> TRUE, text |-> text, rest |-> Drop(s, pos),
              escapes |-> escapes]
        ELSE IF s[pos] # Backslash
        THEN StringRead(s, pos + 1, Append(text, s[pos]), escapes)
        ELSE IF pos + 1 > Len(s) THEN open
        ELSE IF hex
        THEN StringRead(s, pos + 4,
                        Append(text, as_char(Denotes(SubSeq(s, pos + 2, pos + 3), 16))),
                        escapes + 1)
        ELSE IF oct
        THEN StringRead(s, pos + 4,
                        Append(text, as_char(Denotes(SubSeq(s, pos + 1, pos + 3), 8))),
                        escapes + 1)
        ELSE StringRead(s, pos + 2, Append(text, s[pos + 1]), escapes + 1)

\* C7: for a quoted body p e1 r1 ... ek rk (k >= 1, p a run of plain
\* characters) followed by the closing quote, parse_string succeeds with the
\* owned value p c1 r1 ... ck rk, ci the character escape ei denotes.
C7_Claim ==
    (Called("parse_string") /\ StartsWith(input, <<Quote>>)
        /\ PlainLen(Tail(input)) >= 1
        /\ StringRead(input, 2, <<>>, 0).closed
        /\ StringRead(input, 2, <<>>, 0).escapes >= 1)
    => result = Done(StringRead(input, 2, <<>>, 0).rest,
                     Owned(StringRead(input, 2, <<>>, 0).text))

\* C8: on an input that starts with a quote, parse_string returns Incomplete
\* iff the input ends before the closing quote of the token is found.
C8_Claim ==
    (Called("parse_string") /\ StartsWith(input, <<Quote>>))
    => (result.kind = "Incomplete" <=> ~StringRead(input, 2, <<>>, 0).closed)

\* C10: on every input text, each of parse_unsigned, parse_operator,
\* parse_identifier_like, parse_ethernet_addr and parse_ipv4 ends in Done or
\* in an Error that carries a subslice, never in Incomplete.
C10_Claim ==
    (pc = "done" /\ scanner # "parse_string")
    => \/ result.kind = "Done"
       \/ result.kind = "Error" /\ Len(result.err) >= 1

=============================================================================
